---- MODULE Spec2Model ----
(***************************************************************************)
(* ChurnGuard: the churn-risk scoring, categorisation, recommendation and  *)
(* report pipeline of predict_churn.py, and the monitor's run_churn_check. *)
(*                                                                         *)
(* A customer dict is a record whose optional keys hold <<>> when the key  *)
(* is absent and <<v>> when it is present with value v; dict.get(k, d) is  *)
(* the operator get.  Python floats are modelled as exact rationals        *)
(* [num, den]; round(x, 2) is modelled as the integer number of hundredths *)
(* obtained by round-half-even, so a reported 'Risk Score' of 79.99 is the *)
(* integer 7999.                                                           *)
(***************************************************************************)
EXTENDS Integers, Sequences, FiniteSets, TLC

VARIABLES
    customers,        \* the list of customer dicts handed to the pipeline
    pc,               \* position of the caller: start, predicted, recommended, called, done
    outcome,          \* what the caller printed: none, no_customers, ok, error
    risk_scores,      \* risk_score of each customer, in input order (unrounded)
    results_df,       \* the DataFrame returned by predict_churn, as a list of rows
    high_risk_view,   \* main's recommendation view: one entry per row with Risk Score >= 60
    summary,          \* <<>> until main prints the summary, then <<counts>>
    critical,         \* run_churn_check's alert rows
    rec_call          \* <<>> or <<[risk_score, recommendations]>>: a direct get_recommendations call

vars == <<customers, pc, outcome, risk_scores, results_df, high_risk_view,
          summary, critical, rec_call>>

----------------------------------------------------------------------------
(* Bounds and input domains *)

MaxCustomers == 2

Opt(S) == {<<>>} \cup {<<v>> : v \in S}

StatusValues == {"canceled", "past_due", "unpaid", "trialing", "none", "active", "incomplete"}
FailedChargesValues == {0, 2, 125}
TotalChargesValues == {0, 3, 1001}
DaysUntilRenewalValues == {-5, 0, 3, 7}
CustomerAgeValues == {10, 30}

\* Every dict the scorer can be handed: each optional key present or absent.
AllFeatures ==
    [subscription_status : Opt(StatusValues),
     cancel_at_period_end : Opt(BOOLEAN),
     failed_charges : Opt(FailedChargesValues),
     total_charges : Opt(TotalChargesValues),
     days_until_renewal : Opt(DaysUntilRenewalValues),
     default_source : Opt(BOOLEAN),
     customer_age_days : Opt(CustomerAgeValues)]

\* The dicts used in multi-customer lists (as _extract_customer_features builds
\* them: every key present).
ReportFeatures ==
    [subscription_status : {<<"active">>, <<"past_due">>},
     cancel_at_period_end : {<<FALSE>>},
     failed_charges : {<<0>>, <<125>>},
     total_charges : {<<1001>>},
     days_until_renewal : {<<3>>, <<10>>},
     default_source : {<<TRUE>>, <<FALSE>>},
     customer_age_days : {<<100>>}]

\* customer_id is the unique key; the i-th fetched customer has id i.
WithId(f, id) == [customer_id |-> id] @@ f

InputLists ==
    {<<>>}
    \cup {<<WithId(f, 1)>> : f \in AllFeatures}
    \cup UNION {{[i \in 1..n |-> WithId(s[i], i)] : s \in [1..n -> ReportFeatures]}
                : n \in 1..MaxCustomers}

\* Scores a caller may pass to get_recommendations directly.
ScoreInputs == {[num |-> 0, den |-> 1], [num |-> 60, den |-> 1], [num |-> 80, den |-> 1],
                [num |-> 8001, den |-> 100], [num |-> 100, den |-> 1]}

----------------------------------------------------------------------------
(* Exact rational arithmetic standing for Python float arithmetic *)

Rat(n, d) == [num |-> n, den |-> d]
RatAdd(a, b) == Rat(a.num * b.den + b.num * a.den, a.den * b.den)
RatLt(a, b) == a.num * b.den < b.num * a.den
RatLe(a, b) == a.num * b.den <= b.num * a.den
RatEq(a, b) == a.num * b.den = b.num * a.den

\* round(x, 2) for x >= 0, in hundredths (round-half-even).
Round2(x) ==
    LET q == (100 * x.num) \div x.den
        r == (100 * x.num) % x.den
    IN  IF 2 * r > x.den THEN q + 1
        ELSE IF 2 * r < x.den THEN q
        ELSE IF q % 2 = 0 THEN q ELSE q + 1

\* dict.get(key, default)
get(d, key, default) == IF d[key] = <<>> THEN default ELSE d[key][1]

----------------------------------------------------------------------------
(* ChurnPredictor.calculate_churn_risk *)

\* Variant: the weights of past_due and unpaid exchanged.
status_term_swapped(customer_data) ==
    LET status == get(customer_data, "subscription_status", "none")
    IN  IF status = "canceled" THEN 100
        ELSE IF status = "past_due" THEN 90
        ELSE IF status = "unpaid" THEN 80
        ELSE IF status = "trialing" THEN 20
        ELSE IF status = "none" THEN 50
        ELSE 0

\* Subscription status
status_term(customer_data) ==
    LET status == get(customer_data, "subscription_status", "none")
    IN  IF status = "canceled" THEN 100
        ELSE IF status = "past_due" THEN 80
        ELSE IF status = "unpaid" THEN 90
        ELSE IF status = "trialing" THEN 20
        ELSE IF status = "none" THEN 50
        ELSE 0

\* Cancel at period end
cancel_term(customer_data) ==
    IF get(customer_data, "cancel_at_period_end", FALSE) THEN 70 ELSE 0

\* Variant: `total_charges or 1` in place of the `total_charges > 0` guard.
payment_failure_term_zero_as_one(customer_data) ==
    LET failed_charges == get(customer_data, "failed_charges", 0)
        total_charges == get(customer_data, "total_charges", 1)
    IN  IF total_charges > 0
        THEN Rat(failed_charges * 40, total_charges)
        ELSE Rat(failed_charges * 40, 1)

\* Variant: the rate of successful charges in place of the failure rate.
payment_failure_term_success_rate(customer_data) ==
    LET failed_charges == get(customer_data, "failed_charges", 0)
        total_charges == get(customer_data, "total_charges", 1)
    IN  IF total_charges > 0
        THEN Rat((total_charges - failed_charges) * 40, total_charges)
        ELSE Rat(0, 1)

\* Payment failures: failure_rate * 40, only when total_charges > 0
payment_failure_term(customer_data) ==
    LET failed_charges == get(customer_data, "failed_charges", 0)
        total_charges == get(customer_data, "total_charges", 1)
    IN  IF total_charges > 0
        THEN Rat(failed_charges * 40, total_charges)
        ELSE Rat(0, 1)

\* Days until renewal (very soon = risk)
renewal_term(customer_data) ==
    LET days_until_renewal == get(customer_data, "days_until_renewal", 0)
    IN  IF 0 < days_until_renewal /\ days_until_renewal < 7 THEN 30
        ELSE IF days_until_renewal < 0 THEN 50
        ELSE 0

\* No payment method
payment_method_term(customer_data) ==
    IF ~get(customer_data, "default_source", FALSE) THEN 30 ELSE 0

\* New customer (less than 30 days)
new_customer_term(customer_data) ==
    IF get(customer_data, "customer_age_days", 0) < 30 THEN 15 ELSE 0

\* Variant: the final min(100, ...) dropped.
clamp_dropped(risk_score) == risk_score

\* min(100, risk_score)
clamp(risk_score) ==
    IF RatLt(Rat(100, 1), risk_score) THEN Rat(100, 1) ELSE risk_score

calculate_churn_risk(customer_data) ==
    LET s1 == Rat(status_term(customer_data), 1)
        s2 == RatAdd(s1, Rat(cancel_term(customer_data), 1))
        s3 == RatAdd(s2, payment_failure_term(customer_data))
        s4 == RatAdd(s3, Rat(renewal_term(customer_data), 1))
        s5 == RatAdd(s4, Rat(payment_method_term(customer_data), 1))
        s6 == RatAdd(s5, Rat(new_customer_term(customer_data), 1))
    IN  clamp(s6)

----------------------------------------------------------------------------
(* ChurnPredictor.predict_churn *)

\* Categorize risk (on the unrounded risk_score)
risk_level(risk_score) ==
    IF RatLt(risk_score, Rat(30, 1)) THEN "Low"
    ELSE IF RatLt(risk_score, Rat(60, 1)) THEN "Medium"
    ELSE IF RatLt(risk_score, Rat(80, 1)) THEN "High"
    ELSE "Critical"

\* One row of results.  Risk_Score is round(risk_score, 2) in hundredths.  The
\* Email and the two display-rounded columns are copied values no operation
\* of the pipeline reads back, and are left out.
result_row(customer) ==
    LET risk_score == calculate_churn_risk(customer)
    IN  [Customer_ID |-> customer.customer_id,
         Status |-> get(customer, "subscription_status", "N/A"),
         Risk_Score |-> Round2(risk_score),
         Risk_Level |-> risk_level(risk_score),
         Failed_Charges |-> get(customer, "failed_charges", 0)]

results_of(cs) == [i \in 1..Len(cs) |-> result_row(cs[i])]

\* Variant: ascending=False dropped.
in_sort_order_ascending(earlier, later) == earlier.Risk_Score <= later.Risk_Score

\* The order sort_values('Risk Score', ascending=False) must establish
\* between a row and any later row.
in_sort_order(earlier, later) == earlier.Risk_Score >= later.Risk_Score

\* df.sort_values('Risk Score', ascending=False): pandas' default kind is
\* 'quicksort', which is not stable, so the call may return any arrangement
\* of the rows that is in descending order of Risk Score.
sort_values(results) ==
    LET n == Len(results)
    IN  {df \in {[i \in 1..n |-> results[p[i]]] : p \in Permutations(1..n)} :
            \A i, j \in 1..n : i < j => in_sort_order(df[i], df[j])}

----------------------------------------------------------------------------
(* ChurnPredictor.get_recommendations *)

\* Variant: `>= 80` in place of `> 80`.
critical_rule_inclusive(risk_score) == RatLe(Rat(80, 1), risk_score)

\* if risk_score > 80
critical_rule(risk_score) == RatLt(Rat(80, 1), risk_score)

CriticalBlock == <<"CRITICAL: Immediate intervention required",
                   "   - Reach out personally to customer",
                   "   - Offer discount or extended trial",
                   "   - Review payment method issues">>
PaymentFailureMsg == "Payment failures detected - update payment method"
RetentionMsg == "Customer scheduled cancellation - offer retention deal"
PaymentMethodMsg == "No payment method on file - request update"
RenewalMsg == "Renewal approaching - send reminder and offer"
OnboardingMsg == "New customer - ensure onboarding is complete"
HealthyMsg == "Customer appears healthy - maintain engagement"

get_recommendations(customer_data, risk_score) ==
    LET r1 == IF critical_rule(risk_score) THEN CriticalBlock ELSE <<>>
        r2 == IF get(customer_data, "failed_charges", 0) > 0
              THEN Append(r1, PaymentFailureMsg) ELSE r1
        r3 == IF get(customer_data, "cancel_at_period_end", FALSE)
              THEN Append(r2, RetentionMsg) ELSE r2
        r4 == IF ~get(customer_data, "default_source", FALSE)
              THEN Append(r3, PaymentMethodMsg) ELSE r3
        r5 == IF get(customer_data, "days_until_renewal", 0) < 7
                 /\ get(customer_data, "days_until_renewal", 0) > 0
              THEN Append(r4, RenewalMsg) ELSE r4
        r6 == IF get(customer_data, "customer_age_days", 0) < 30
              THEN Append(r5, OnboardingMsg) ELSE r5
    IN  IF r6 = <<>> THEN Append(r6, HealthyMsg) ELSE r6

----------------------------------------------------------------------------
(* main: the high-risk view and the summary statistics *)

\* results_df[results_df['Risk Score'] >= 60]
is_high_risk(row) == row.Risk_Score >= 6000

\* next((c for c in customers if c['customer_id'] == customer_id), None)
customer_by_id(cs, customer_id) ==
    LET hits == {i \in 1..Len(cs) : cs[i].customer_id = customer_id}
    IN  cs[CHOOSE i \in hits : \A j \in hits : i <= j]

high_risk_recommendations(cs, df) ==
    LET high_risk == SelectSeq(df, is_high_risk)
    IN  [k \in 1..Len(high_risk) |->
            [Customer_ID |-> high_risk[k].Customer_ID,
             Risk_Score |-> high_risk[k].Risk_Score,
             Risk_Level |-> high_risk[k].Risk_Level,
             recommendations |->
                 get_recommendations(customer_by_id(cs, high_risk[k].Customer_ID),
                                     Rat(high_risk[k].Risk_Score, 100))]]

is_low(row) == row.Risk_Score < 3000
\* Variant: `> 30` in place of `>= 30`.
is_medium_exclusive(row) == row.Risk_Score > 3000 /\ row.Risk_Score < 6000

is_medium(row) == row.Risk_Score >= 3000 /\ row.Risk_Score < 6000
is_high(row) == row.Risk_Score >= 6000 /\ row.Risk_Score < 8000
is_critical(row) == row.Risk_Score >= 8000

summary_statistics(cs, df) ==
    [Total |-> Len(cs),
     Low |-> Len(SelectSeq(df, is_low)),
     Medium |-> Len(SelectSeq(df, is_medium)),
     High |-> Len(SelectSeq(df, is_high)),
     Critical |-> Len(SelectSeq(df, is_critical))]

----------------------------------------------------------------------------
(* The callers *)

Init ==
    /\ customers \in InputLists
    /\ pc = "start"
    /\ outcome = "none"
    /\ risk_scores = <<>>
    /\ results_df = <<>>
    /\ high_risk_view = <<>>
    /\ summary = <<>>
    /\ critical = <<>>
    /\ rec_call = <<>>

\* main: `if not customers: print("No customers found"); return`
MainNoCustomers ==
    /\ pc = "start"
    /\ customers = <<>>
    /\ pc' = "done"
    /\ outcome' = "no_customers"
    /\ UNCHANGED <<customers, risk_scores, results_df, high_risk_view, summary,
                   critical, rec_call>>

\* main: results_df = predictor.predict_churn(customers)
MainPredict ==
    /\ pc = "start"
    /\ customers # <<>>
    /\ risk_scores' = [i \in 1..Len(customers) |-> calculate_churn_risk(customers[i])]
    /\ results_df' \in sort_values(results_of(customers))
    /\ pc' = "predicted"
    /\ UNCHANGED <<customers, outcome, high_risk_view, summary, critical, rec_call>>

\* main: show recommendations for high-risk customers
MainRecommend ==
    /\ pc = "predicted"
    /\ high_risk_view' = high_risk_recommendations(customers, results_df)
    /\ pc' = "recommended"
    /\ UNCHANGED <<customers, outcome, risk_scores, results_df, summary, critical,
                   rec_call>>

\* main: summary statistics
MainSummary ==
    /\ pc = "recommended"
    /\ summary' = <<summary_statistics(customers, results_df)>>
    /\ pc' = "done"
    /\ outcome' = "ok"
    /\ UNCHANGED <<customers, risk_scores, results_df, high_risk_view, critical,
                   rec_call>>

\* run_churn_check on an empty fetch: pd.DataFrame([]) has no 'Risk Score'
\* column, sort_values raises KeyError, the handler prints "Error: ...".
RunChurnCheckEmpty ==
    /\ pc = "start"
    /\ customers = <<>>
    /\ pc' = "done"
    /\ outcome' = "error"
    /\ UNCHANGED <<customers, risk_scores, results_df, high_risk_view, summary,
                   critical, rec_call>>

\* run_churn_check: predict, then alert on rows with Risk Score >= 80
RunChurnCheck ==
    /\ pc = "start"
    /\ customers # <<>>
    /\ risk_scores' = [i \in 1..Len(customers) |-> calculate_churn_risk(customers[i])]
    /\ \E df \in sort_values(results_of(customers)) :
          /\ results_df' = df
          /\ critical' = SelectSeq(df, is_critical)
    /\ pc' = "done"
    /\ outcome' = "ok"
    /\ UNCHANGED <<customers, high_risk_view, summary, rec_call>>

\* A direct call predictor.get_recommendations(customer_data, risk_score)
GetRecommendations ==
    /\ pc = "start"
    /\ customers # <<>>
    /\ \E risk_score \in ScoreInputs :
          rec_call' = <<[risk_score |-> risk_score,
                         recommendations |-> get_recommendations(customers[1], risk_score)]>>
    /\ pc' = "called"
    /\ UNCHANGED <<customers, outcome, risk_scores, results_df, high_risk_view,
                   summary, critical>>

Next ==
    \/ MainNoCustomers
    \/ MainPredict
    \/ MainRecommend
    \/ MainSummary
    \/ RunChurnCheckEmpty
    \/ RunChurnCheck
    \/ GetRecommendations

Spec == Init /\ [][Next]_vars

----------------------------------------------------------------------------
(* Properties *)

Range(seq) == {seq[k] : k \in DOMAIN seq}

\* The rule table of the scorer, with the value total_charges takes when the
\* key is absent as a parameter.
RuleTableSum(c, total_default) ==
    LET status == get(c, "subscription_status", "none")
        cancel == get(c, "cancel_at_period_end", FALSE)
        failed == get(c, "failed_charges", 0)
        total == get(c, "total_charges", total_default)
        days == get(c, "days_until_renewal", 0)
        source == get(c, "default_source", FALSE)
        age == get(c, "customer_age_days", 0)
        points ==
            (CASE status = "canceled" -> 100
               [] status = "unpaid" -> 90
               [] status = "past_due" -> 80
               [] status = "none" -> 50
               [] status = "trialing" -> 20
               [] OTHER -> 0)
            + (IF cancel THEN 70 ELSE 0)
            + (IF days < 0 THEN 50 ELSE IF days > 0 /\ days < 7 THEN 30 ELSE 0)
            + (IF source THEN 0 ELSE 30)
            + (IF age < 30 THEN 15 ELSE 0)
    IN  IF total > 0 THEN Rat(points * total + 40 * failed, total) ELSE Rat(points, 1)

MinHundred(x) == IF RatLe(x, Rat(100, 1)) THEN x ELSE Rat(100, 1)

\* The threshold bucket of a reported score (in hundredths).
ThresholdBucket(h) ==
    CASE h < 3000 -> "Low"
      [] h >= 3000 /\ h < 6000 -> "Medium"
      [] h >= 6000 /\ h < 8000 -> "High"
      [] h >= 8000 -> "Critical"

Scored == pc \in {"predicted", "recommended", "done"} /\ customers # <<>>

\* C1: every score returned by calculate_churn_risk lies between 0 and 100,
\* whatever the record and whichever optional fields are absent.
C1_ScoreInRange ==
    \A i \in DOMAIN risk_scores :
        /\ RatLe(Rat(0, 1), risk_scores[i])
        /\ RatLe(risk_scores[i], Rat(100, 1))

\* C1 witness: a record with an absent optional field whose rule sum exceeds
\* 100 has been scored, and its score is exactly 100.
C1_Witness ==
    /\ Scored
    /\ \E i \in DOMAIN risk_scores :
          /\ customers[i].total_charges = <<>>
          /\ status_term(customers[i]) + cancel_term(customers[i]) > 100
          /\ RatEq(risk_scores[i], Rat(100, 1))

C3_LevelIsBucketOfReportedScore ==
    \A k \in DOMAIN results_df :
        results_df[k].Risk_Level = ThresholdBucket(results_df[k].Risk_Score)

C5_EmptyInputFlaggedNoData ==
    (customers = <<>> /\ pc = "done") =>
        /\ outcome = "no_customers"
        /\ \A n \in DOMAIN summary :
              /\ summary[n].Low = 0
              /\ summary[n].Medium = 0
              /\ summary[n].High = 0
              /\ summary[n].Critical = 0

RuleFires(k, c, score) ==
    CASE k = 1 -> RatLt(Rat(80, 1), score)
      [] k = 2 -> get(c, "failed_charges", 0) > 0
      [] k = 3 -> get(c, "cancel_at_period_end", FALSE)
      [] k = 4 -> ~get(c, "default_source", FALSE)
      [] k = 5 -> 0 < get(c, "days_until_renewal", 0) /\ get(c, "days_until_renewal", 0) < 7
      [] k = 6 -> get(c, "customer_age_days", 0) < 30

RuleBlock(k) ==
    CASE k = 1 -> CriticalBlock
      [] k = 2 -> <<PaymentFailureMsg>>
      [] k = 3 -> <<RetentionMsg>>
      [] k = 4 -> <<PaymentMethodMsg>>
      [] k = 5 -> <<RenewalMsg>>
      [] k = 6 -> <<OnboardingMsg>>

RECURSIVE FiredBlocks(_, _, _)
FiredBlocks(k, c, score) ==
    IF k > 6 THEN <<>>
    ELSE (IF RuleFires(k, c, score) THEN RuleBlock(k) ELSE <<>>)
         \o FiredBlocks(k + 1, c, score)

RecommendationsAsRuled(c, score, recs) ==
    LET anyFired == \E k \in 1..6 : RuleFires(k, c, score)
    IN  /\ recs # <<>>
        /\ anyFired => recs = FiredBlocks(1, c, score)
        /\ ~anyFired => recs = <<HealthyMsg>>
        /\ (HealthyMsg \in Range(recs)) <=> ~anyFired

\* C7: get_recommendations returns the messages of exactly the rules that
\* fire, in the fixed order 1..6, and the single fallback message if and only
\* if no rule fired; the list is never empty.
C7_RecommendationsInRuleOrder ==
    /\ \A n \in DOMAIN rec_call :
          RecommendationsAsRuled(customers[1], rec_call[n].risk_score,
                                 rec_call[n].recommendations)
    /\ \A k \in DOMAIN high_risk_view :
          RecommendationsAsRuled(customer_by_id(customers, high_risk_view[k].Customer_ID),
                                 Rat(high_risk_view[k].Risk_Score, 100),
                                 high_risk_view[k].recommendations)

\* C7 witness: a call on a record matching rules 1, 3 and 5 only returned
\* exactly those three blocks, in that order.
C7_Witness ==
    /\ rec_call # <<>>
    /\ rec_call[1].recommendations = CriticalBlock \o <<RetentionMsg, RenewalMsg>>

\* C8: with total_charges fixed and positive and all other fields equal, a
\* larger failed_charges never gives a smaller score.
C8_MonotoneInFailedCharges ==
    /\ \A i \in DOMAIN risk_scores :
          (customers[i].total_charges # <<>> /\ customers[i].total_charges[1] > 0
             /\ customers[i].failed_charges # <<>>) =>
              \A f \in FailedChargesValues :
                  f >= customers[i].failed_charges[1] =>
                      RatLe(risk_scores[i],
                            calculate_churn_risk(
                                [customers[i] EXCEPT !.failed_charges = <<f>>]))
    /\ \A i, j \in DOMAIN risk_scores :
          (/\ [customers[i] EXCEPT !.failed_charges = <<0>>, !.customer_id = 0]
                = [customers[j] EXCEPT !.failed_charges = <<0>>, !.customer_id = 0]
           /\ customers[i].total_charges # <<>>
           /\ customers[i].total_charges[1] > 0
           /\ customers[i].failed_charges # <<>>
           /\ customers[j].failed_charges # <<>>
           /\ customers[i].failed_charges[1] <= customers[j].failed_charges[1])
              => RatLe(risk_scores[i], risk_scores[j])

\* C8 witness: two scored records that differ only in failed_charges, the one
\* with more failed charges scoring strictly higher.
C8_Witness ==
    /\ Scored
    /\ Len(customers) = 2
    /\ [customers[1] EXCEPT !.failed_charges = <<0>>, !.customer_id = 0]
         = [customers[2] EXCEPT !.failed_charges = <<0>>, !.customer_id = 0]
    /\ customers[1].failed_charges[1] < customers[2].failed_charges[1]
    /\ RatLt(risk_scores[1], risk_scores[2])

\* C9: in the summary of a non-empty report each count is the number of rows
\* in its bucket, every row is in exactly one bucket, and the four counts sum
\* to the number of input records.
C9_SummaryCountsPartitionRows ==
    \A n \in DOMAIN summary :
        customers # <<>> =>
            LET s == summary[n]
                rows(b) == {k \in DOMAIN results_df :
                               ThresholdBucket(results_df[k].Risk_Score) = b}
            IN  /\ s.Low = Cardinality(rows("Low"))
                /\ s.Medium = Cardinality(rows("Medium"))
                /\ s.High = Cardinality(rows("High"))
                /\ s.Critical = Cardinality(rows("Critical"))
                /\ \A k \in DOMAIN results_df :
                      Cardinality({b \in {"Low", "Medium", "High", "Critical"} :
                                      k \in rows(b)}) = 1
                /\ s.Low + s.Medium + s.High + s.Critical = Len(customers)
                /\ s.Total = Len(customers)

\* C9 witness: the summary of a two-record report with one Low and one
\* Critical row.
C9_Witness ==
    /\ summary # <<>>
    /\ Len(customers) = 2
    /\ summary[1].Low = 1
    /\ summary[1].Critical = 1

\* C10 as stated: no entry of the high-risk recommendation view (rows with
\* Risk Score >= 60) holds the fallback 'Customer appears healthy' message.
C10_HighRiskNeverHealthy ==
    \A k \in DOMAIN high_risk_view :
        HealthyMsg \notin Range(high_risk_view[k].recommendations)

====
